---- MODULE Spec2Model ----
(***************************************************************************)
(* find_similar_files of src/main.py: the directory scan that builds the   *)
(* digest table file_hashes, and the greedy one-pass clustering over it.   *)
(* Paths are named by their position in the directory walk.  The fuzzy     *)
(* digests are opaque: what the model keeps of them is the outcome of      *)
(* ssdeep.compare for every pair of files of the table.                    *)
(***************************************************************************)
EXTENDS Integers, Sequences, FiniteSets, TLC

\* most files the scanned directory holds
MaxFiles == 4

\* argparse defaults
DefaultThreshold == 70
DefaultMinSize == 1024

\* ssdeep.compare raised instead of returning a score
Fail == -1

\* scores ssdeep.compare returns in the model (a subset of 0..100)
Sims == {40, 85, 100}
CmpOutcomes == Sims \cup {Fail}

\* the comparison tables explored: a failing comparison and the top score are
\* not explored in one table
Explored(cm) ==
    \/ \A pr \in DOMAIN cm : cm[pr] # Fail
    \/ \A pr \in DOMAIN cm : cm[pr] # 100

\* values of --threshold explored (a subset of 0..100)
Thresholds == {0, DefaultThreshold, 100}

\* what the file system does with a file: "ok" is read and hashed, "small" is
\* below --min-size, "sizeerr" makes os.path.getsize raise OSError, "readerr"
\* makes open/read/hash raise inside calculate_hashes
FileKinds == {"ok", "small", "sizeerr", "readerr"}

VARIABLES
    isdir,        \* os.path.isdir(directory)
    files,        \* the files os.walk yields, in walk order
    fs,           \* path -> FileKinds
    threshold,    \* args.threshold
    min_size,     \* args.min_size
    file_hashes,  \* keys of the dict file_hashes, in insertion order
    cmp,          \* {p, q} -> outcome of ssdeep.compare on the two digests
    pc,           \* "walk", "cluster" or "done"
    w,            \* position of the walk in files
    i,            \* position of the outer loop in file_hashes
    clusters,     \* keys of the dict clusters (the membership registry)
    emitted,      \* the pairs <<filepath1, cluster>> yielded so far
    discarded     \* the filepath1 whose cluster was not yielded

vars == <<isdir, files, fs, threshold, min_size, file_hashes, cmp, pc, w, i,
          clusters, emitted, discarded>>

Range(s) == {s[k] : k \in 1..Len(s)}

Pairs(S) == {{a, b} : a \in S, b \in S} \ {{a} : a \in S}

----------------------------------------------------------------------------
(* the scan *)

Getsize(kind) == IF kind = "small" THEN 10 ELSE 2048

\* ssdeep_hash, xxhash_hash = calculate_hashes(filepath): TRUE when both are set
calculate_hashes(kind) == kind = "ok"

----------------------------------------------------------------------------
(* the clustering pass *)

\* ssdeep.compare(ssdeep_hash1, ssdeep_hash2); a digest compared with itself
\* scores 100, a comparison the loop never asks for
Compare(cm, p1, p2) == IF p1 = p2 THEN 100 ELSE cm[{p1, p2}]

\* the comparison turned round
Similar_reversed(similarity, thr) == similarity <= thr

\* > written for >=
Similar_strict(similarity, thr) == similarity > thr

Similar(similarity, thr) == similarity >= thr

\* filepath1 is compared with itself
Eligible_noself(p1, p2, reg) == p2 \notin reg

\* the registry is not consulted for filepath2
Eligible_noreg(p1, p2, reg) == p1 # p2

Eligible(p1, p2, reg) == p1 # p2 /\ p2 \notin reg

\* filepath2 is not marked
Mark_noop(reg, p2) == reg

Mark(reg, p2) == reg \cup {p2}

\* filepath2 is marked before the comparison is made
InnerBody_failmarks(cm, thr, p1, p2, st) ==
    IF p1 # p2 /\ p2 \notin st.clusters
    THEN LET similarity == cm[{p1, p2}]
         IN  IF similarity = Fail
             THEN [cluster |-> st.cluster, clusters |-> st.clusters \cup {p2}]
             ELSE IF similarity >= thr
                  THEN [cluster |-> Append(st.cluster, p2),
                        clusters |-> st.clusters \cup {p2}]
                  ELSE st
    ELSE st

\* one pass of the inner loop body for filepath2 = p2;
\* st = [cluster |-> the list cluster, clusters |-> the registry]
InnerBody(cm, thr, p1, p2, st) ==
    IF Eligible(p1, p2, st.clusters)
    THEN LET similarity == Compare(cm, p1, p2)
         IN  IF similarity = Fail
             THEN st
             ELSE IF Similar(similarity, thr)
                  THEN [cluster |-> Append(st.cluster, p2),
                        clusters |-> Mark(st.clusters, p2)]
                  ELSE st
    ELSE st

\* the inner loop stops one entry short
RECURSIVE InnerLoop_offbyone(_, _, _, _, _, _)
InnerLoop_offbyone(fh, cm, thr, p1, j, st) ==
    IF j >= Len(fh)
    THEN st
    ELSE InnerLoop_offbyone(fh, cm, thr, p1, j + 1,
                            InnerBody(cm, thr, p1, fh[j], st))

RECURSIVE InnerLoop(_, _, _, _, _, _)
InnerLoop(fh, cm, thr, p1, j, st) ==
    IF j > Len(fh)
    THEN st
    ELSE InnerLoop(fh, cm, thr, p1, j + 1, InnerBody(cm, thr, p1, fh[j], st))

\* a cluster of the representative alone is yielded
ShouldYield_always(cluster) == Len(cluster) > 0

\* a cluster of two is not yielded
ShouldYield_three(cluster) == Len(cluster) > 2

ShouldYield(cluster) == Len(cluster) > 1

\* one pass of the outer loop body for filepath1 = p1;
\* st = [clusters, emitted, discarded]
OuterBody(fh, cm, thr, p1, st) ==
    IF p1 \in st.clusters
    THEN st
    ELSE LET r == InnerLoop(fh, cm, thr, p1, 1,
                            [cluster |-> <<p1>>, clusters |-> st.clusters])
         IN  IF ShouldYield(r.cluster)
             THEN [clusters |-> r.clusters,
                   emitted |-> Append(st.emitted, <<p1, r.cluster>>),
                   discarded |-> st.discarded]
             ELSE [clusters |-> r.clusters,
                   emitted |-> st.emitted,
                   discarded |-> st.discarded \cup {p1}]

RECURSIVE OuterLoop(_, _, _, _, _)
OuterLoop(fh, cm, thr, k, st) ==
    IF k > Len(fh)
    THEN st
    ELSE OuterLoop(fh, cm, thr, k + 1, OuterBody(fh, cm, thr, fh[k], st))

NoClusters == [clusters |-> {}, emitted |-> <<>>, discarded |-> {}]

\* the whole clustering pass over a table
RunAll(fh, cm, thr) == OuterLoop(fh, cm, thr, 1, NoClusters)

----------------------------------------------------------------------------

Init ==
    /\ isdir \in BOOLEAN
    /\ \E n \in 0..MaxFiles :
          /\ files = [k \in 1..n |-> k]
          /\ fs \in [1..n -> FileKinds]
    /\ isdir = FALSE => files = <<>>
    /\ threshold \in Thresholds
    /\ min_size = DefaultMinSize
    /\ file_hashes = <<>>
    /\ cmp = <<>>
    /\ pc = "walk"
    /\ w = 1
    /\ i = 1
    /\ clusters = {}
    /\ emitted = <<>>
    /\ discarded = {}

scanVars == <<isdir, files, fs, threshold, min_size>>
clusterVars == <<i, clusters, emitted, discarded>>

\* if not os.path.isdir(directory): return
InvalidDirectory ==
    /\ pc = "walk"
    /\ ~isdir
    /\ pc' = "done"
    /\ UNCHANGED <<scanVars, file_hashes, cmp, w, clusterVars>>

Walking == pc = "walk" /\ isdir /\ w <= Len(files)

\* os.path.getsize raises OSError: except OSError ... return
GetsizeError ==
    /\ Walking
    /\ fs[files[w]] = "sizeerr"
    /\ pc' = "done"
    /\ UNCHANGED <<scanVars, file_hashes, cmp, w, clusterVars>>

\* if os.path.getsize(filepath) < min_size: continue
SkipSmall ==
    /\ Walking
    /\ fs[files[w]] # "sizeerr"
    /\ Getsize(fs[files[w]]) < min_size
    /\ w' = w + 1
    /\ UNCHANGED <<scanVars, file_hashes, cmp, pc, clusterVars>>

\* calculate_hashes returned (None, None): the file is not inserted
HashError ==
    /\ Walking
    /\ fs[files[w]] # "sizeerr"
    /\ ~(Getsize(fs[files[w]]) < min_size)
    /\ ~calculate_hashes(fs[files[w]])
    /\ w' = w + 1
    /\ UNCHANGED <<scanVars, file_hashes, cmp, pc, clusterVars>>

\* the comparison table once the digest of p is known: row[q] is the outcome
\* of comparing it with the digest of q
Extend(cm, p, row) ==
    [pr \in DOMAIN cm \cup {{p, q} : q \in DOMAIN row} |->
        IF pr \in DOMAIN cm THEN cm[pr] ELSE row[CHOOSE q \in pr : q # p]]

\* file_hashes[filepath] = (ssdeep_hash, xxhash_hash); the digest just
\* computed fixes the outcome of its comparison with every digest of the table
Insert ==
    /\ Walking
    /\ fs[files[w]] # "sizeerr"
    /\ ~(Getsize(fs[files[w]]) < min_size)
    /\ calculate_hashes(fs[files[w]])
    /\ \E row \in [Range(file_hashes) -> CmpOutcomes] :
          /\ Explored(Extend(cmp, files[w], row))
          /\ cmp' = Extend(cmp, files[w], row)
    /\ file_hashes' = Append(file_hashes, files[w])
    /\ w' = w + 1
    /\ UNCHANGED <<scanVars, pc, clusterVars>>

\* the walk is over: the clustering loop starts
EndWalk ==
    /\ pc = "walk"
    /\ isdir
    /\ w > Len(files)
    /\ pc' = "cluster"
    /\ UNCHANGED <<scanVars, file_hashes, cmp, w, clusterVars>>

Clustering == pc = "cluster" /\ i <= Len(file_hashes)

Cur == [clusters |-> clusters, emitted |-> emitted, discarded |-> discarded]

OuterStep ==
    LET n == OuterBody(file_hashes, cmp, threshold, file_hashes[i], Cur)
    IN  /\ clusters' = n.clusters
        /\ emitted' = n.emitted
        /\ discarded' = n.discarded
        /\ i' = i + 1
        /\ UNCHANGED <<scanVars, file_hashes, cmp, pc, w>>

\* if filepath1 in clusters: continue
SkipClaimed ==
    /\ Clustering
    /\ file_hashes[i] \in clusters
    /\ OuterStep

\* the inner loop, then yield filepath1, cluster
YieldCluster ==
    /\ Clustering
    /\ file_hashes[i] \notin clusters
    /\ OuterStep
    /\ Len(emitted') > Len(emitted)

\* the inner loop, then no yield: len(cluster) is 1
DiscardCluster ==
    /\ Clustering
    /\ file_hashes[i] \notin clusters
    /\ OuterStep
    /\ Len(emitted') = Len(emitted)

\* the outer loop is exhausted: the generator ends
Finish ==
    /\ pc = "cluster"
    /\ i > Len(file_hashes)
    /\ pc' = "done"
    /\ UNCHANGED <<scanVars, file_hashes, cmp, w, clusterVars>>

Next ==
    \/ InvalidDirectory
    \/ GetsizeError
    \/ SkipSmall
    \/ HashError
    \/ Insert
    \/ EndWalk
    \/ SkipClaimed
    \/ YieldCluster
    \/ DiscardCluster
    \/ Finish

Spec == Init /\ [][Next]_vars

----------------------------------------------------------------------------
(* what the claims speak of *)

\* the clustering pass has run to its end (the scan was not aborted)
Completed == pc = "done" /\ isdir /\ w > Len(files)

NeverFails(cm) == \A pr \in DOMAIN cm : cm[pr] # Fail

\* the members of the k-th pair of a yielded sequence, representative left out
MembersOf(em, k) == Tail(em[k][2])

\* every path of the k-th pair: the representative and the members
PathsOf(em, k) == {em[k][1]} \cup Range(MembersOf(em, k))

Clustered(em) == UNION {PathsOf(em, k) : k \in 1..Len(em)}

IndexOf(p) == CHOOSE k \in 1..Len(file_hashes) : file_hashes[k] = p

\* C1: every path occurs in at most one emitted cluster, as representative
\* or as member: two distinct emitted clusters share no path.
C1_AtMostOneCluster ==
    \A a, b \in 1..Len(emitted) :
        a # b => PathsOf(emitted, a) \cap PathsOf(emitted, b) = {}

C1_Witness ==
    /\ Completed
    /\ Len(emitted) = 2
    /\ ~NeverFails(cmp)

\* C2: every emitted cluster has a member other than its representative, one
\* that compares with it at or above the threshold, and a table of fewer than
\* two entries yields nothing.
C2_NoSingleton ==
    /\ \A k \in 1..Len(emitted) :
          \E m \in Range(emitted[k][2]) :
              /\ m # emitted[k][1]
              /\ cmp[{m, emitted[k][1]}] # Fail
              /\ cmp[{m, emitted[k][1]}] >= threshold
    /\ Len(file_hashes) <= 1 => emitted = <<>>

C2_Witness ==
    /\ Completed
    /\ Len(emitted) = 1
    /\ discarded # {}

\* the registry when the k-th emitted cluster was started: the members of the
\* clusters emitted before it
ClaimedBefore(k) == UNION {Range(MembersOf(emitted, m)) : m \in 1..(k - 1)}

\* the paths, in insertion order, that the k-th representative takes
ExpectedMembers(k) ==
    LET rep == emitted[k][1]
        Takes(p) == /\ p # rep
                    /\ p \notin ClaimedBefore(k)
                    /\ cmp[{rep, p}] # Fail
                    /\ cmp[{rep, p}] >= threshold
    IN  SelectSeq(file_hashes, Takes)

Together(em, a, b) == \E k \in 1..Len(em) : {a, b} \subseteq PathsOf(em, k)

\* C4 as stated: with a compare that never fails, two paths that are in one
\* cluster at a threshold t2 are in one cluster at every threshold t1 <= t2.
C4_Monotone ==
    (Completed /\ NeverFails(cmp)) =>
        \A t2 \in Thresholds :
            t2 >= threshold =>
                \A a, b \in Range(file_hashes) :
                    Together(RunAll(file_hashes, cmp, t2).emitted, a, b)
                        => Together(emitted, a, b)

\* C4 amended: with a compare that never fails, if the first table entry is
\* the representative of an emitted cluster at t2 then it is at every t1 <= t2,
\* and every member of its cluster at t2 is a member of its cluster at t1.
C4_FirstClusterMonotone ==
    (Completed /\ NeverFails(cmp)) =>
        \A t2 \in Thresholds :
            t2 >= threshold =>
                LET e2 == RunAll(file_hashes, cmp, t2).emitted
                IN  (e2 # <<>> /\ e2[1][1] = file_hashes[1]) =>
                        /\ emitted # <<>>
                        /\ emitted[1][1] = file_hashes[1]
                        /\ PathsOf(e2, 1) \subseteq PathsOf(emitted, 1)

C4_Witness ==
    /\ Completed
    /\ NeverFails(cmp)
    /\ \E t2 \in Thresholds :
          /\ t2 > threshold
          /\ LET e2 == RunAll(file_hashes, cmp, t2).emitted
             IN  /\ e2 # <<>>
                 /\ e2[1][1] = file_hashes[1]
                 /\ PathsOf(e2, 1) # PathsOf(emitted, 1)

\* C5: an I/O error on one file skips only that file: when the run is over
\* every file that is itself readable and large enough is in the table.
C5_OneBadFileNeverAborts ==
    (pc = "done" /\ isdir) =>
        \A p \in Range(files) : fs[p] = "ok" => p \in Range(file_hashes)

\* C6: a failing comparison is local to its pair: no member of an emitted
\* cluster failed to compare with its representative, the registry holds
\* members of emitted clusters only, every table entry was considered, and the
\* emitted sequence is the one produced when the failing pair compares below
\* the threshold instead.
C6_FailureIsLocal ==
    Completed =>
        /\ \A k \in 1..Len(emitted) : \A m \in Range(MembersOf(emitted, k)) :
              cmp[{emitted[k][1], m}] # Fail
        /\ clusters = UNION {Range(MembersOf(emitted, k)) : k \in 1..Len(emitted)}
        /\ i > Len(file_hashes)
        /\ Range(file_hashes) = clusters \cup discarded
                                    \cup {emitted[k][1] : k \in 1..Len(emitted)}
        /\ \A pr \in DOMAIN cmp :
              cmp[pr] = Fail =>
                  \A v \in Sims :
                      v < threshold =>
                          RunAll(file_hashes, [cmp EXCEPT ![pr] = v], threshold).emitted
                              = emitted

C6_Witness ==
    /\ Completed
    /\ \E v \in Sims : v < threshold
    /\ \E k \in 1..Len(emitted) : \E p2 \in discarded :
          cmp[{emitted[k][1], p2}] = Fail

ScenarioC(a, b, c) ==
    /\ Len(file_hashes) = 3
    /\ Range(file_hashes) = {a, b, c}
    /\ Cardinality({a, b, c}) = 3
    /\ threshold = 70
    /\ cmp[{a, b}] = 85
    /\ cmp[{b, c}] = 85
    /\ cmp[{a, c}] = 40

\* C7: with A~B 85, B~C 85, A~C 40 and threshold 70 exactly one cluster is
\* emitted in each insertion order of A, B, C; in the order A, B, C it is
\* A with the single member B, and C is in no cluster.
C7_ScenarioC ==
    Completed =>
        \A a, b, c \in Range(file_hashes) :
            ScenarioC(a, b, c) =>
                /\ Len(emitted) = 1
                /\ file_hashes = <<a, b, c>> =>
                      /\ emitted[1][1] = a
                      /\ MembersOf(emitted, 1) = <<b>>
                      /\ c \notin Clustered(emitted)

C7_Witness ==
    /\ Completed
    /\ ScenarioC(file_hashes[1], file_hashes[2], file_hashes[3])

\* C8: with threshold 0, at least two table entries and no failing
\* comparison, exactly one cluster is emitted: the first entry with all the
\* other entries, in insertion order, as its members.
C8_ThresholdZero ==
    (Completed /\ threshold = 0 /\ Len(file_hashes) >= 2 /\ NeverFails(cmp)) =>
        /\ Len(emitted) = 1
        /\ emitted[1][1] = file_hashes[1]
        /\ MembersOf(emitted, 1) = Tail(file_hashes)
        /\ Clustered(emitted) = Range(file_hashes)

C8_Witness ==
    /\ Completed
    /\ threshold = 0
    /\ Len(file_hashes) >= 3
    /\ NeverFails(cmp)
    /\ \E pr \in DOMAIN cmp : cmp[pr] = 40

\* the tables and comparison outcomes a run can be given
Tables == {[k \in 1..n |-> k] : n \in 0..MaxFiles}
CmpTables(tb) == [Pairs(Range(tb)) -> CmpOutcomes]

\* a path whose own cluster was discarded is a member of an emitted cluster
PulledIn(r) ==
    \E p \in r.discarded : \E k \in 1..Len(r.emitted) :
        p \in Range(MembersOf(r.emitted, k))

\* C9 as stated: a discarded representative is not in the registry, and there
\* are a table, a threshold and symmetric comparison outcomes for which a path
\* whose own cluster was discarded is a member of a cluster emitted later.
C9_DiscardedJoinsLater ==
    /\ discarded \cap clusters = {}
    /\ \E tb \in Tables : \E cm \in CmpTables(tb) : \E t \in Thresholds :
          PulledIn(RunAll(tb, cm, t))

\* C9 amended: a discarded representative is not added to the registry, which
\* holds members of emitted clusters only; with a symmetric compare a path
\* whose own cluster was discarded is in no emitted cluster, before or after.
C9_DiscardedStaysOut ==
    /\ discarded \cap clusters = {}
    /\ \A p \in clusters : \E k \in 1..Len(emitted) :
          p \in Range(MembersOf(emitted, k))
    /\ discarded \cap Clustered(emitted) = {}

C9_Witness ==
    /\ Completed
    /\ \E p \in discarded : \E k \in 1..Len(emitted) :
          /\ IndexOf(p) < IndexOf(emitted[k][1])
          /\ cmp[{p, emitted[k][1]}] # Fail

\* C10: with a compare that never fails, once the pass is over any two
\* distinct table paths that are both in no emitted cluster compare strictly
\* below the threshold.
C10_NoSimilarPairLeftOut ==
    (Completed /\ NeverFails(cmp)) =>
        \A a, b \in Range(file_hashes) \ Clustered(emitted) :
            a # b => cmp[{a, b}] < threshold

C10_Witness ==
    /\ Completed
    /\ NeverFails(cmp)
    /\ emitted # <<>>
    /\ Cardinality(Range(file_hashes) \ Clustered(emitted)) >= 2
====
